---------------------------- MODULE Spec2Model ----------------------------
(***************************************************************************)
(* A model of dpypx, the client of the Python Discord Pixels API:          *)
(*   - ratelimits.py : RateLimitEndpoint / RateLimiter (per-endpoint       *)
(*                     quota and cooldown derived from response headers),  *)
(*   - client.py     : Client.send_request / Client.request and the        *)
(*                     operations built on them,                           *)
(*   - autodraw.py   : AutoDrawer.draw over a canvas snapshot.             *)
(*                                                                         *)
(* Three specifications share the definitions:                             *)
(*   SpecLimiter : update / pause of the RateLimiter called in any order,  *)
(*   Spec        : one Client issuing requests, the transport answering    *)
(*                 with any response of the Responses set,                 *)
(*   SpecDraw    : AutoDrawer.draw over every plan and canvas in bounds.   *)
(***************************************************************************)
EXTENDS Integers, Sequences, FiniteSets, TLC

VARIABLES
    ratelimits,   \* RateLimiter.ratelimits: endpoint -> RateLimitEndpoint fields
    lastOp,       \* history: the last RateLimiter call (SpecLimiter)
    ghost,        \* history: per endpoint, what the headers seen so far said
    pc,           \* Client.request: where the coroutine stands
    op,           \* the Client operation in progress
    req,          \* arguments of the Client.request call in progress
    retry,        \* local `retry` of Client.request
    resp,         \* local `resp` of Client.request
    raised,       \* the exception that left Client.request, if any
    events,       \* history: pause / send / update events of the current call
    sends,        \* history: number of transport sends made so far
    sizes,        \* history: number of get_size requests answered with success
    windows,      \* history: per endpoint, quota-window sleeps since its last send
    plan,         \* AutoDrawer: x0, y0, grid and the top_to_bottom argument of draw
    canvas,       \* the server's canvas: <<x, y>> -> pixel
    canvas0,      \* history: the server's canvas when draw started
    cache,        \* AutoDrawer.canvas: the snapshot, if one was fetched
    scan,         \* AutoDrawer.draw: index of the next coordinate of the loop
    writes,       \* history: the put_pixel calls made by draw
    dpc,          \* AutoDrawer.draw / draw_and_fix: where the coroutine stands
    call,         \* the AutoDrawer method running and its `forever` argument
    work_to_do,   \* local `work_to_do` of draw_and_fix
    failure,      \* history: the last client call of the drawer that raised
    foreign,      \* history: pixels set by other agents so far
    store,        \* the file a save_file path names
    save_file,    \* RateLimiter.save_file, as handed to the constructor
    save_data,    \* RateLimiter.save_data
    built,        \* who was constructed, and the exception that ended it if any
    tasks,        \* coroutines inside Client.request at the same time
    made          \* Canvas(size, data): the arguments and what became of them

limVars == <<ratelimits, lastOp, ghost>>
cliVars == <<pc, op, req, retry, resp, raised, events, sends, sizes, windows>>
drawVars == <<plan, canvas, canvas0, cache, scan, writes, dpc,
              call, work_to_do, failure, foreign>>
storeVars == <<store, save_file, save_data, built>>
taskVars == <<tasks>>
pureVars == <<made>>
vars == <<ratelimits, lastOp, ghost, pc, op, req, retry, resp, raised, events, sends, sizes,
          windows,
          plan, canvas, canvas0, cache, scan, writes, dpc,
          call, work_to_do, failure, foreign,
          store, save_file, save_data, built, tasks, made>>

---------------------------------------------------------------------------
(* Python's None.  Header values and seconds are naturals, so -1 is free. *)
None == -1

(* Truth value of an `int | None` in an `if`: None and 0 are false. *)
Truthy(x) == x # None /\ x # 0

(***************************************************************************)
(* Endpoints named by client.py.                                           *)
(***************************************************************************)
Endpoints == {"set_pixel", "swap_pixel", "get_size", "get_pixels", "get_pixel"}

(***************************************************************************)
(* Header values the server may send (seconds / counts, after int()).      *)
(* 0 is in every set that the code tests for truth.                        *)
(***************************************************************************)
RemainingValues == {0, 2}
LimitValues == {2, 3}
ResetValues == {0, 5}
CooldownValues == {0, 7}

(* A response's rate-limit headers; None = the header is absent.           *)
(* Requests-Limit accompanies Requests-Remaining (update subscripts it);   *)
(* Requests-Reset may be absent (update reads it with .get).               *)
NoHeaders == [cooldown |-> None, remaining |-> None, limit |-> None, reset |-> None]

QuotaHeaders ==
    { [cooldown |-> None, remaining |-> r, limit |-> l, reset |-> s] :
        r \in RemainingValues, l \in LimitValues, s \in ResetValues \cup {None} }

CooldownHeaders ==
    { [cooldown |-> c, remaining |-> None, limit |-> None, reset |-> None] :
        c \in CooldownValues }

BothHeaders ==
    { [h EXCEPT !.cooldown = c] : h \in QuotaHeaders, c \in CooldownValues }

AllHeaders == {NoHeaders} \cup QuotaHeaders \cup CooldownHeaders \cup BothHeaders

---------------------------------------------------------------------------
(***************************************************************************)
(* RateLimitEndpoint                                                       *)
(***************************************************************************)
NewEndpoint ==
    [ratelimited |-> TRUE, remaining |-> 1, limit |-> None, reset |-> None,
     cooldown_reset |-> None]

(* update, first branch: 'Cooldown-Reset' in headers. *)
UpdateCooldown(st, h) ==
    [st EXCEPT !.remaining = 0, !.cooldown_reset = h.cooldown]

(* update, second branch: 'Requests-Remaining' not in headers. *)
UpdateUnlimited(st, h) ==
    [st EXCEPT !.ratelimited = FALSE]


(* Mutant: the quota branch also marks the endpoint rate-limited. *)
UpdateQuota_marksLimited(st, h) ==
    IF h.reset = None /\ st.reset = None
    THEN [st EXCEPT !.remaining = h.remaining, !.limit = h.limit, !.ratelimited = TRUE]
    ELSE [st EXCEPT !.remaining = h.remaining, !.limit = h.limit, !.ratelimited = TRUE,
                    !.reset = IF h.reset # None THEN h.reset ELSE st.reset]

(* update, last three assignments; int(None) raises TypeError after the    *)
(* first two when Requests-Reset is absent and no reset is known yet.      *)
UpdateQuota(st, h) ==
    IF h.reset = None /\ st.reset = None
    THEN [st EXCEPT !.remaining = h.remaining, !.limit = h.limit]
    ELSE [st EXCEPT !.remaining = h.remaining, !.limit = h.limit,
                    !.reset = IF h.reset # None THEN h.reset ELSE st.reset]

UpdateRaises(st, h) ==
    h.cooldown = None /\ h.remaining # None /\ h.reset = None /\ st.reset = None

EndpointUpdate(st, h) ==
    IF h.cooldown # None THEN UpdateCooldown(st, h)
    ELSE IF h.remaining = None THEN UpdateUnlimited(st, h)
    ELSE UpdateQuota(st, h)


(* Mutant: the quota window is slept whatever `remaining` says. *)
PauseSleep_ignoresRemaining(st) ==
    IF Truthy(st.cooldown_reset) THEN st.cooldown_reset
    ELSE IF ~st.ratelimited THEN 0
    ELSE IF Truthy(st.reset) THEN st.reset
    ELSE 0

(* Mutant: the `ratelimited` flag is not consulted. *)
PauseSleep_ignoresFlag(st) ==
    IF Truthy(st.cooldown_reset) THEN st.cooldown_reset
    ELSE IF st.remaining # 0 THEN 0
    ELSE IF Truthy(st.reset) THEN st.reset
    ELSE 0

(* pause: the seconds handed to asyncio.sleep (0: no sleep is awaited). *)
PauseSleep(st) ==
    IF Truthy(st.cooldown_reset) THEN st.cooldown_reset
    ELSE IF ~st.ratelimited THEN 0
    ELSE IF st.remaining # 0 THEN 0
    ELSE IF Truthy(st.reset) THEN st.reset
    ELSE 0


(* Mutant: the cooldown is not cleared after it was slept. *)
PauseState_keepsCooldown(st) == st

(* pause: the fields after it returns. *)
PauseState(st) ==
    IF Truthy(st.cooldown_reset) THEN [st EXCEPT !.cooldown_reset = None]
    ELSE st

(***************************************************************************)
(* RateLimiter: a defaultdict(RateLimitEndpoint); no save file.            *)
(***************************************************************************)
LimiterOf(rl, e) == IF e \in DOMAIN rl THEN rl[e] ELSE NewEndpoint

SetLimiter(rl, e, st) ==
    [x \in (DOMAIN rl) \cup {e} |-> IF x = e THEN st ELSE rl[x]]

LimiterUpdate(rl, e, h) == SetLimiter(rl, e, EndpointUpdate(LimiterOf(rl, e), h))

LimiterPause(rl, e) == SetLimiter(rl, e, PauseState(LimiterOf(rl, e)))

EmptyLimiter == [x \in {} |-> NewEndpoint]

(***************************************************************************)
(* History of the headers seen per endpoint:                               *)
(*   cooldown  : the value of the latest Cooldown-Reset header not yet     *)
(*               followed by a pause on the endpoint (None: there is none),*)
(*   unlimited : a response without quota and cooldown headers was seen.   *)
(***************************************************************************)
NoGhost == [e \in Endpoints |-> [cooldown |-> None, unlimited |-> FALSE]]

GhostUpdate(g, e, h) ==
    IF h.cooldown # None THEN [g EXCEPT ![e].cooldown = h.cooldown]
    ELSE IF h.remaining = None THEN [g EXCEPT ![e].unlimited = TRUE]
    ELSE g

GhostPause(g, e) == [g EXCEPT ![e].cooldown = None]

(* pause, lines 52-54: the sleep is the one of the quota window (`reset`),  *)
(* not the one of a cooldown (lines 40-44).                                 *)
SleepsWindow(st) == ~Truthy(st.cooldown_reset) /\ PauseSleep(st) > 0

(* History: per endpoint, the sleeps of the quota window since the last    *)
(* request sent to it.                                                     *)
NoWindows == [e \in Endpoints |-> 0]

WindowsPause(w, e, st) == IF SleepsWindow(st) THEN [w EXCEPT ![e] = @ + 1] ELSE w


---------------------------------------------------------------------------
(***************************************************************************)
(* Client: the transport's answers.                                        *)
(***************************************************************************)
(* A key that a JSON body, or a call, does not carry. *)
Absent == "<absent>"

(* A parsed body: `message` / `detail` of an error body, `payload` for the *)
(* content of a success body.                                              *)
NoBody == [message |-> Absent, detail |-> Absent, payload |-> Absent]

ErrorBodies ==
    { [NoBody EXCEPT !.message = "msg"],
      [NoBody EXCEPT !.detail = "det"],
      [NoBody EXCEPT !.message = "msg", !.detail = "det"],
      NoBody }

SuccessBody == [NoBody EXCEPT !.payload = "content"]

(* Headers of the responses in Spec.  The server sends Requests-Remaining, *)
(* Requests-Limit and Requests-Reset together.                             *)
QuotaLeft == [cooldown |-> None, remaining |-> 2, limit |-> 3, reset |-> 5]
QuotaSpent == [cooldown |-> None, remaining |-> 0, limit |-> 2, reset |-> 5]
CooldownSent == [cooldown |-> 7, remaining |-> None, limit |-> None, reset |-> None]

Response(status, headers, body) ==
    [status |-> status, headers |-> headers, body |-> body]

Responses ==
    { Response(200, h, SuccessBody) :
        h \in {NoHeaders, QuotaLeft, QuotaSpent, CooldownSent} }
    \cup { Response(399, QuotaLeft, SuccessBody) }
    \cup { Response(429, h, [NoBody EXCEPT !.message = "msg"]) :
        h \in {QuotaSpent, CooldownSent} }
    \cup { Response(400, QuotaSpent, b) : b \in ErrorBodies }
    \cup { Response(s, QuotaSpent, [NoBody EXCEPT !.message = "msg"]) : s \in {405, 499} }
    \cup { Response(s, CooldownSent, NoBody) : s \in {500, 503} }

(***************************************************************************)
(* Client.send_request: classification of a response.                      *)
(***************************************************************************)
NoError == [class |-> "none", code |-> None, message |-> Absent]

(* Lines 60-66: the exception class of a 4xx status. *)
ClientErrorClass(status) ==
    IF status = 405 THEN "MethodNotAllowedError"
    ELSE IF status = 429 THEN "RatelimitedError"
    ELSE "HttpClientError"

(* Lines 67-73: the detail of a 4xx error. *)
Detail(method, body) ==
    IF method = "HEAD" THEN "No body (HEAD request)."
    ELSE IF body.message # Absent THEN body.message
    ELSE IF body.detail # Absent THEN body.detail
    ELSE "No error message."

(* The exception send_request raises for a response (NoError: none). *)
SendRequestError(method, r) ==
    IF 500 > r.status /\ r.status >= 400
    THEN [class |-> ClientErrorClass(r.status), code |-> r.status,
          message |-> Detail(method, r.body)]
    ELSE IF r.status >= 500
    THEN [class |-> "ServerError", code |-> None, message |-> Absent]
    ELSE NoError

(* Line 77 is reached only when nothing was raised before it. *)
SendRequestUpdates(method, r) == SendRequestError(method, r) = NoError

(* Lines 78-83: the value send_request returns. *)
SendRequestResult(method, r) == IF method = "HEAD" THEN NoBody ELSE r.body

(***************************************************************************)
(* Client.request                                                          *)
(***************************************************************************)
Request(method, endpoint, data, params, ratelimit_after) ==
    [method |-> method, endpoint |-> endpoint, data |-> data, params |-> params,
     ratelimit_after |-> ratelimit_after]

NoRequest == Request("", "", Absent, Absent, FALSE)


(* Mutant: no exception is caught. *)
RetryAfter_never(error) == FALSE

(* Mutant: `except HttpClientError`, the base class of RatelimitedError. *)
RetryAfter_anyClientError(error) ==
    error.class \in {"RatelimitedError", "MethodNotAllowedError", "HttpClientError"}

(* Lines 101-104: `except RatelimitedError: retry = True`. *)
RetryAfter(error) == error.class = "RatelimitedError"


(* Lines 105-106: `if ratelimit_after:` after the try statement. *)
PausesAfter(r) == r.ratelimit_after

(* Arguments of the calls the operations make. *)
PixelData == {"x=1,y=2,rgb=00ff00", "x=0,y=0,rgb=ff0000"}
SwapData == {"origin=(0,0),dest=(1,2)"}
PixelParams == {"x=1,y=2"}

put_pixel_request(d) == Request("POST", "set_pixel", d, Absent, TRUE)
swap_pixels_request(d) == Request("POST", "swap_pixel", d, Absent, TRUE)
get_canvas_size_request == Request("GET", "get_size", Absent, Absent, FALSE)
get_canvas_request == Request("GET", "get_pixels", Absent, Absent, FALSE)

(* Mutant: get_pixel asks for the pause after the request. *)
get_pixel_request_waitsAfter(p) == Request("GET", "get_pixel", Absent, p, TRUE)

get_pixel_request(p) == Request("GET", "get_pixel", Absent, p, FALSE)

(* Events of the call in progress. *)
Event(kind, endpoint) ==
    [kind |-> kind, endpoint |-> endpoint, method |-> "", data |-> Absent,
     params |-> Absent, status |-> 0, headers |-> NoHeaders, body |-> NoBody,
     slept |-> 0]

PauseEvent(e, slept) == [Event("pause", e) EXCEPT !.slept = slept]

SendEvent(q, r) ==
    [Event("send", q.endpoint) EXCEPT !.method = q.method, !.data = q.data,
        !.params = q.params, !.status = r.status, !.headers = r.headers,
        !.body = r.body]

UpdateEvent(e, h) == [Event("update", e) EXCEPT !.headers = h]

---------------------------------------------------------------------------
(***************************************************************************)
(* Pixel and colours                                                       *)
(***************************************************************************)
Red == <<255, 0, 0>>
Green == <<0, 255, 0>>
Blue == <<0, 0, 255>>

HexDigits == <<"0", "1", "2", "3", "4", "5", "6", "7", "8", "9",
               "a", "b", "c", "d", "e", "f">>

(* f'{n:0>2x}' for a channel 0..255. *)
HexByte(n) == <<HexDigits[(n \div 16) + 1], HexDigits[(n % 16) + 1]>>

(* Pixel.__str__ *)
PixelStr(p) == <<"#">> \o HexByte(p[1]) \o HexByte(p[2]) \o HexByte(p[3])

(* parse_colour for a Pixel: str(value)[1:] *)
parse_colour(p) == Tail(PixelStr(p))

(* int(c, 16) for one hexadecimal digit, either case. *)
HexValue(c) ==
    IF c = "A" THEN 10 ELSE IF c = "B" THEN 11 ELSE IF c = "C" THEN 12
    ELSE IF c = "D" THEN 13 ELSE IF c = "E" THEN 14 ELSE IF c = "F" THEN 15
    ELSE (CHOOSE i \in 1..16 : HexDigits[i] = c) - 1

(* hex.lstrip('#') *)
RECURSIVE LStripHash(_)
LStripHash(h) == IF h # <<>> /\ Head(h) = "#" THEN LStripHash(Tail(h)) ELSE h

(* Pixel.from_hex: what the `rgb` of a set_pixel body denotes. *)
from_hex(h) ==
    LET d == LStripHash(h)
    IN  << 16 * HexValue(d[1]) + HexValue(d[2]),
           16 * HexValue(d[3]) + HexValue(d[4]),
           16 * HexValue(d[5]) + HexValue(d[6]) >>

(***************************************************************************)
(* AutoDrawer                                                              *)
(***************************************************************************)
(* A cell of the grid: (Pixel, opaque). *)
Cell(colour, opaque) == [colour |-> colour, opaque |-> opaque]

GridWidth(g) == Len(g[1])
GridHeight(g) == Len(g)

(* __init__: the bottom right coordinates. *)
X1(pl) == pl.x0 + GridWidth(pl.grid)
Y1(pl) == pl.y0 + GridHeight(pl.grid)

(* _iter_coords as the list it yields: x is the outer loop when             *)
(* top_to_bottom, y otherwise.                                              *)
IterCoords(pl) ==
    LET w == GridWidth(pl.grid)
        h == GridHeight(pl.grid)
    IN  IF pl.top_to_bottom
        THEN [i \in 1..(w * h) |-> <<pl.x0 + ((i - 1) \div h), pl.y0 + ((i - 1) % h)>>]
        ELSE [i \in 1..(w * h) |-> <<pl.x0 + ((i - 1) % w), pl.y0 + ((i - 1) \div w)>>]

(* check_pixel, line 102: self.grid[y - self.y0][x - self.x0] *)
GridCell(pl, x, y) == pl.grid[(y - pl.y0) + 1][(x - pl.x0) + 1]

(* Canvas.__getitem__ on the snapshot. *)
CanvasAt(c, x, y) == c[<<x, y>>]


(* Mutant: the snapshot is not consulted. *)
ShouldWrite_ignoresCanvas(pl, ch, x, y) == GridCell(pl, x, y).opaque

(* Mutant: the opaque flag is not consulted. *)
ShouldWrite_ignoresOpaque(pl, ch, x, y) ==
    ~(ch.have /\ CanvasAt(ch.grid, x, y) = GridCell(pl, x, y).colour)

(* check_pixel, lines 103-108: TRUE when put_pixel is to be called. *)
ShouldWrite(pl, ch, x, y) ==
    IF ~GridCell(pl, x, y).opaque THEN FALSE
    ELSE IF ch.have /\ CanvasAt(ch.grid, x, y) = GridCell(pl, x, y).colour THEN FALSE
    ELSE TRUE

(* The server applying a set_pixel body {x, y, rgb}. *)
ServerSetPixel(c, x, y, rgb) == [c EXCEPT ![<<x, y>>] = from_hex(rgb)]

WriteCall(x, y, colour) == [x |-> x, y |-> y, colour |-> colour, rgb |-> parse_colour(colour)]

---------------------------------------------------------------------------
(***************************************************************************)
(* Initial conditions and the RateLimiter called directly (SpecLimiter).   *)
(***************************************************************************)
(* Outside SpecDraw no drawer runs. *)
NoPlan == [x0 |-> 0, y0 |-> 0, grid |-> <<<<Cell(Blue, FALSE)>>>>, top_to_bottom |-> FALSE]
NoCanvas == [c \in {<<0, 0>>} |-> Blue]
NoCache == [have |-> FALSE, grid |-> NoCanvas]

NoCall == [strategy |-> "none", forever |-> FALSE]
NoFailure == [call |-> "none", class |-> "none"]

(* The locals and histories of a drawer no method of which has run. *)
DrawerFresh ==
    /\ cache = NoCache /\ scan = 0 /\ writes = <<>> /\ dpc = "idle"
    /\ call = NoCall /\ work_to_do = FALSE /\ failure = NoFailure
    /\ foreign = 0

DrawIdle ==
    /\ plan = NoPlan /\ canvas = NoCanvas /\ canvas0 = NoCanvas
    /\ DrawerFresh

(***************************************************************************)
(* Canvas                                                                  *)
(***************************************************************************)

(* Mutant: only a buffer that is too short is refused. *)
CanvasRaises_onlyShort(size, data) == size[1] * size[2] * 3 > Len(data)

(* Canvas.__init__, lines 45-52: CanvasFormatError is raised. *)
CanvasRaises(size, data) == size[1] * size[2] * 3 # Len(data)

(* Lines 53-55: one Pixel per slice data[start:start + 3]. *)
CanvasPixels(data) ==
    [p \in 1..((Len(data) + 2) \div 3) |->
        SubSeq(data, 3 * p - 2, IF 3 * p <= Len(data) THEN 3 * p ELSE Len(data))]

(* Lines 56-59: pixels[row * width:(row + 1) * width] for each row. *)
CanvasGrid(size, data) ==
    [row \in 1..size[2] |->
        SubSeq(CanvasPixels(data), (row - 1) * size[1] + 1, row * size[1])]

(* Canvas.__getitem__: self.grid[y][x] *)
Canvas_at(grid, x, y) == grid[y + 1][x + 1]

NoCanvasMade ==
    [size |-> <<0, 0>>, data |-> <<>>, state |-> "none", grid |-> <<>>,
     got |-> <<>>]

(***************************************************************************)
(* The save file of the RateLimiter.                                       *)
(***************************************************************************)
(* A key that a JSON object does not have. *)
NoKey == -2

(* RateLimitEndpoint.dump: the object stored per endpoint. *)
EndpointDump(st) ==
    [remaining |-> st.remaining, limit |-> st.limit, reset |-> st.reset,
     cooldown_reset |-> st.cooldown_reset]

(* RateLimitEndpoint.load on a fresh endpoint: `ratelimited` is not stored. *)
EndpointLoad(st, d) ==
    [st EXCEPT !.remaining = d.remaining, !.limit = d.limit, !.reset = d.reset,
               !.cooldown_reset = IF d.cooldown_reset = NoKey THEN 0
                                  ELSE d.cooldown_reset]

EmptyData == [x \in {} |-> EndpointDump(NewEndpoint)]

(* What save_file may name: no file, a file that cannot be opened for      *)
(* reading, a file that is not JSON, a JSON document of endpoint objects.  *)
StoredEndpoints == {"set_pixel", "get_size"}
StoredObjects ==
    [remaining : {0, 2}, limit : {None, 3}, reset : {None, 5},
     cooldown_reset : {NoKey, None, 7}]
Stores ==
    { [kind |-> k, data |-> EmptyData] : k \in {"missing", "unreadable", "malformed"} }
    \cup { [kind |-> "json", data |-> d] :
             d \in UNION { [es -> StoredObjects] : es \in SUBSET StoredEndpoints } }

(* The values handed to RateLimiter as save_file: None, an empty string, a *)
(* path, and the Client itself (client.py, line 37).                       *)
SaveFiles == {"None", "", "ratelimits.json"}
TheClient == "<Client>"

(* `if save_file:` *)
SaveFileSet(sf) == sf \notin {"None", ""}

(* load, lines 87-90: the exception of open / json.load, "none" if none. *)
LoadError(sf, st) ==
    IF sf = TheClient THEN "TypeError"
    ELSE IF st.kind = "missing" THEN "FileNotFoundError"
    ELSE IF st.kind = "unreadable" THEN "PermissionError"
    ELSE IF st.kind = "malformed" THEN "JSONDecodeError"
    ELSE "none"

(* load, line 92: the except clause. *)
LoadCatches(err) == err = "FileNotFoundError"

(* load, lines 89-90. *)
LimiterLoad(data) == [e \in DOMAIN data |-> EndpointLoad(NewEndpoint, data[e])]

NoSaveData == [set |-> FALSE, data |-> EmptyData]
NotBuilt == [who |-> "none", error |-> "none"]

StoreIdle ==
    /\ store = [kind |-> "missing", data |-> EmptyData]
    /\ save_file = "None" /\ save_data = NoSaveData /\ built = NotBuilt

NoTasks == <<>>
TasksIdle == tasks = NoTasks /\ made = NoCanvasMade

NoOp ==
    [kind |-> "none", endpoint |-> "", headers |-> NoHeaders, existed |-> FALSE,
     pre |-> NewEndpoint, seen |-> [cooldown |-> None, unlimited |-> FALSE],
     slept |-> 0, error |-> "none"]

(* The endpoint exercised by SpecLimiter: each bucket is a RateLimitEndpoint *)
(* of its own, reached through the same two methods.                        *)
LimiterEndpoints == {"set_pixel"}

ClientIdle ==
    /\ pc = "idle" /\ op = "none" /\ req = NoRequest /\ retry = FALSE
    /\ resp = NoBody /\ raised = NoError /\ events = <<>> /\ sends = 0 /\ sizes = 0
    /\ windows = NoWindows

InitLimiter ==
    /\ ratelimits = EmptyLimiter
    /\ lastOp = NoOp
    /\ ghost = NoGhost
    /\ ClientIdle
    /\ DrawIdle
    /\ StoreIdle
    /\ TasksIdle

(* RateLimiter.update(endpoint, headers) *)
RateLimiter_update(e, h) ==
    /\ ratelimits' = LimiterUpdate(ratelimits, e, h)
    /\ ghost' = GhostUpdate(ghost, e, h)
    /\ lastOp' = [kind |-> "update", endpoint |-> e, headers |-> h,
                  existed |-> e \in DOMAIN ratelimits,
                  pre |-> LimiterOf(ratelimits, e), seen |-> ghost[e],
                  slept |-> 0,
                  error |-> IF UpdateRaises(LimiterOf(ratelimits, e), h)
                            THEN "TypeError" ELSE "none"]
    /\ UNCHANGED cliVars
    /\ UNCHANGED <<drawVars, storeVars, taskVars, pureVars>>

(* RateLimiter.pause(endpoint) *)
RateLimiter_pause(e) ==
    /\ ratelimits' = LimiterPause(ratelimits, e)
    /\ ghost' = GhostPause(ghost, e)
    /\ lastOp' = [kind |-> "pause", endpoint |-> e, headers |-> NoHeaders,
                  existed |-> e \in DOMAIN ratelimits,
                  pre |-> LimiterOf(ratelimits, e), seen |-> ghost[e],
                  slept |-> PauseSleep(LimiterOf(ratelimits, e)),
                  error |-> "none"]
    /\ UNCHANGED cliVars
    /\ UNCHANGED <<drawVars, storeVars, taskVars, pureVars>>

NextLimiter ==
    \/ \E e \in LimiterEndpoints, h \in AllHeaders : RateLimiter_update(e, h)
    \/ \E e \in LimiterEndpoints : RateLimiter_pause(e)

SpecLimiter == InitLimiter /\ [][NextLimiter]_vars

---------------------------------------------------------------------------
(***************************************************************************)
(* Construction of the RateLimiter and of the Client (SpecStore).          *)
(***************************************************************************)
InitStore ==
    /\ ratelimits = EmptyLimiter
    /\ lastOp = NoOp
    /\ ghost = NoGhost
    /\ ClientIdle
    /\ DrawIdle
    /\ TasksIdle
    /\ store \in Stores
    /\ save_file = "None" /\ save_data = NoSaveData /\ built = NotBuilt

(* RateLimiter.__init__(save_file), lines 78-82, and load, lines 86-94. *)
Construct(who, sf) ==
    /\ built = NotBuilt
    /\ save_file' = sf
    /\ LET err == IF SaveFileSet(sf) THEN LoadError(sf, store) ELSE "none"
       IN  /\ ratelimits' = IF SaveFileSet(sf) /\ err = "none"
                            THEN LimiterLoad(store.data) ELSE EmptyLimiter
           /\ save_data' = IF ~SaveFileSet(sf) THEN NoSaveData
                           ELSE IF err = "none" THEN [set |-> TRUE, data |-> store.data]
                           ELSE IF LoadCatches(err) THEN [set |-> TRUE, data |-> EmptyData]
                           ELSE NoSaveData
           /\ built' = [who |-> who,
                        error |-> IF err = "none" \/ LoadCatches(err) THEN "none" ELSE err]
    /\ UNCHANGED <<store, lastOp, ghost>>
    /\ UNCHANGED <<cliVars, drawVars, taskVars, pureVars>>

RateLimiter_init(sf) == Construct("RateLimiter", sf)

(* Client.__init__, line 37: ratelimits.RateLimiter(self) *)
Client_init == Construct("Client", TheClient)

NextStore ==
    \/ \E sf \in SaveFiles : RateLimiter_init(sf)
    \/ Client_init

SpecStore == InitStore /\ [][NextStore]_vars

---------------------------------------------------------------------------
(***************************************************************************)
(* Canvas(size, data) and canvas[x, y] (SpecCanvas).                       *)
(***************************************************************************)
(* Width and height go up to MaxSide. *)
MaxSide == 3

(* Buffers of n bytes: byte i is (i * k + c) mod 256, so that the bytes of *)
(* neighbouring pixels differ.                                             *)
Buffer(n, k, c) == [i \in 1..n |-> ((i - 1) * k + c) % 256]

Buffers ==
    { Buffer(n, k, c) : n \in 0..(3 * MaxSide * MaxSide + 1), k \in {1, 7}, c \in {0, 250} }

Sizes == (0..MaxSide) \X (0..MaxSide)

InitCanvas ==
    /\ ratelimits = EmptyLimiter
    /\ lastOp = NoOp
    /\ ghost = NoGhost
    /\ ClientIdle
    /\ DrawIdle
    /\ StoreIdle
    /\ tasks = NoTasks
    /\ \E size \in Sizes, data \in Buffers :
          made = [NoCanvasMade EXCEPT !.size = size, !.data = data, !.state = "input"]

(* Canvas.__init__ *)
Canvas_init ==
    /\ made.state = "input"
    /\ made' = IF CanvasRaises(made.size, made.data)
               THEN [made EXCEPT !.state = "CanvasFormatError"]
               ELSE [made EXCEPT !.state = "built",
                                 !.grid = CanvasGrid(made.size, made.data)]
    /\ UNCHANGED <<limVars, cliVars, drawVars, storeVars, taskVars>>

(* Canvas.__getitem__((x, y)) *)
Canvas_getitem(x, y) ==
    /\ made.state = "built"
    /\ x < made.size[1] /\ y < made.size[2]
    /\ made' = [made EXCEPT !.got = <<x, y, Canvas_at(made.grid, x, y)>>]
    /\ UNCHANGED <<limVars, cliVars, drawVars, storeVars, taskVars>>

NextCanvas ==
    \/ Canvas_init
    \/ \E x, y \in 0..(MaxSide - 1) : Canvas_getitem(x, y)

SpecCanvas == InitCanvas /\ [][NextCanvas]_vars

---------------------------------------------------------------------------
(***************************************************************************)
(* Client.request step by step (Spec).                                     *)
(***************************************************************************)
(* Transport sends allowed in one behaviour. *)
MaxSends == 3

(* The client before its first call.  Client.__init__ hands the client     *)
(* itself to RateLimiter as save_file; the request path is modelled for a  *)
(* limiter that holds no save file, where update writes nothing.           *)
Init ==
    /\ ratelimits = EmptyLimiter
    /\ lastOp = NoOp
    /\ ghost = NoGhost
    /\ ClientIdle
    /\ DrawIdle
    /\ StoreIdle
    /\ TasksIdle

CallOver == pc \in {"idle", "returned", "raised"}

(* Entry of Client.request: `retry = True`, then the loop. *)
StartRequest(name, q) ==
    /\ CallOver
    /\ sends < MaxSends
    /\ op' = name
    /\ req' = q
    /\ retry' = TRUE
    /\ resp' = NoBody
    /\ raised' = NoError
    /\ events' = <<>>
    /\ pc' = "pause_before"
    /\ UNCHANGED <<ratelimits, lastOp, ghost, sends, sizes, windows>>
    /\ UNCHANGED <<drawVars, storeVars, taskVars, pureVars>>

put_pixel == \E d \in PixelData : StartRequest("put_pixel", put_pixel_request(d))

swap_pixels == \E d \in SwapData : StartRequest("swap_pixels", swap_pixels_request(d))

get_canvas_size ==
    /\ ~(op = "get_canvas" /\ pc = "returned")
    /\ StartRequest("get_canvas_size", get_canvas_size_request)

get_pixel == \E p \in PixelParams : StartRequest("get_pixel", get_pixel_request(p))

(* get_canvas: line 131, then line 132 once the first request returned. *)
get_canvas ==
    /\ ~(op = "get_canvas" /\ pc = "returned")
    /\ StartRequest("get_canvas", get_canvas_request)

get_canvas_then_size ==
    /\ op = "get_canvas" /\ pc = "returned"
    /\ StartRequest("get_canvas.get_canvas_size", get_canvas_size_request)

(* Line 98: await self.ratelimits.pause(endpoint) *)
request_pause_before ==
    /\ pc = "pause_before"
    /\ ratelimits' = LimiterPause(ratelimits, req.endpoint)
    /\ ghost' = GhostPause(ghost, req.endpoint)
    /\ events' = Append(events,
            PauseEvent(req.endpoint, PauseSleep(LimiterOf(ratelimits, req.endpoint))))
    /\ pc' = "send"
    /\ windows' = WindowsPause(windows, req.endpoint, LimiterOf(ratelimits, req.endpoint))
    /\ UNCHANGED <<lastOp, op, req, retry, resp, raised, sends, sizes>>
    /\ UNCHANGED <<drawVars, storeVars, taskVars, pureVars>>

(* Lines 99-104: the try statement around send_request, with the answer r. *)
request_send(r) ==
    /\ pc = "send"
    /\ r.status = 429 => sends + 1 < MaxSends
    /\ sends' = sends + 1
    /\ sizes' = IF req.endpoint = "get_size" /\ SendRequestError(req.method, r) = NoError
                THEN sizes + 1 ELSE sizes
    /\ windows' = [windows EXCEPT ![req.endpoint] = 0]
    /\ LET err == SendRequestError(req.method, r)
           upd == SendRequestUpdates(req.method, r)
           sent == Append(events, SendEvent(req, r))
       IN  /\ ratelimits' = IF upd THEN LimiterUpdate(ratelimits, req.endpoint, r.headers)
                            ELSE ratelimits
           /\ ghost' = IF upd THEN GhostUpdate(ghost, req.endpoint, r.headers) ELSE ghost
           /\ events' = IF upd THEN Append(sent, UpdateEvent(req.endpoint, r.headers))
                        ELSE sent
           /\ IF err = NoError
              THEN /\ resp' = SendRequestResult(req.method, r)
                   /\ retry' = FALSE
                   /\ raised' = NoError
                   /\ pc' = IF PausesAfter(req) THEN "pause_after" ELSE "returned"
              ELSE IF RetryAfter(err)
              THEN /\ retry' = TRUE
                   /\ pc' = IF PausesAfter(req) THEN "pause_after" ELSE "pause_before"
                   /\ UNCHANGED <<resp, raised>>
              ELSE /\ raised' = err
                   /\ pc' = "raised"
                   /\ UNCHANGED <<resp, retry>>
    /\ UNCHANGED <<lastOp, op, req>>
    /\ UNCHANGED <<drawVars, storeVars, taskVars, pureVars>>

(* Line 106: the pause after the try statement, then the loop test. *)
request_pause_after ==
    /\ pc = "pause_after"
    /\ ratelimits' = LimiterPause(ratelimits, req.endpoint)
    /\ ghost' = GhostPause(ghost, req.endpoint)
    /\ events' = Append(events,
            PauseEvent(req.endpoint, PauseSleep(LimiterOf(ratelimits, req.endpoint))))
    /\ pc' = IF retry THEN "pause_before" ELSE "returned"
    /\ windows' = WindowsPause(windows, req.endpoint, LimiterOf(ratelimits, req.endpoint))
    /\ UNCHANGED <<lastOp, op, req, retry, resp, raised, sends, sizes>>
    /\ UNCHANGED <<drawVars, storeVars, taskVars, pureVars>>

Next ==
    \/ put_pixel
    \/ swap_pixels
    \/ get_canvas_size
    \/ get_pixel
    \/ get_canvas
    \/ get_canvas_then_size
    \/ request_pause_before
    \/ \E r \in Responses : request_send(r)
    \/ request_pause_after

Spec == Init /\ [][Next]_vars

---------------------------------------------------------------------------
(***************************************************************************)
(* AutoDrawer.draw over a canvas that only the drawer writes (SpecDraw).   *)
(***************************************************************************)
(* Cells of the largest grid. *)
MaxCells == 4

Origins == {<<2, 3>>}
PlanCells == {Cell(Red, TRUE), Cell(Green, TRUE), Cell(Green, FALSE)}
CanvasColours == {Red, Blue}

Shapes == { s \in (1..MaxCells) \X (1..MaxCells) : s[1] * s[2] <= MaxCells }

Grids == UNION { [1..s[2] -> [1..s[1] -> PlanCells]] : s \in Shapes }

Region(pl) == (pl.x0 .. X1(pl) - 1) \X (pl.y0 .. Y1(pl) - 1)

(* The canvas is as large as the plan needs; only the region varies. *)
CanvasCoords(pl) == (0 .. X1(pl) - 1) \X (0 .. Y1(pl) - 1)

(* What client.get_canvas / client.put_pixel may do: return, or raise one  *)
(* of the errors of client.py.                                             *)
ClientOutcomes == {"ok", "HttpClientError", "ServerError"}

(* update_canvas, line 82: the exceptions the except clause names. *)
UpdateCanvasCatches(outcome) == outcome = "EndpointDisabledError"

InitDraw ==
    /\ ratelimits = EmptyLimiter
    /\ lastOp = NoOp
    /\ ghost = NoGhost
    /\ ClientIdle
    /\ \E g \in Grids, o \in Origins :
          plan = [x0 |-> o[1], y0 |-> o[2], grid |-> g, top_to_bottom |-> FALSE]
    /\ \E r \in [Region(plan) -> CanvasColours] :
          canvas = [c \in CanvasCoords(plan) |-> IF c \in Region(plan) THEN r[c] ELSE Blue]
    /\ canvas0 = canvas
    /\ DrawerFresh
    /\ StoreIdle
    /\ TasksIdle

(* Mutant: draw_and_fix goes on with the next cell after a write. *)
BreaksAfterWrite_never(c) == FALSE

(* draw_and_fix, line 132: the `break` after a write; draw has none. *)
BreaksAfterWrite(c) == c.strategy = "draw_and_fix"

(* Mutant: line 127 is missing, work_to_do keeps its value. *)
ScanStartsWith_kept(w) == w

(* draw_and_fix, line 127: work_to_do after the refresh that opens a scan. *)
ScanStartsWith(w) == FALSE

(* Mutant: check_pixel swallows what put_pixel raises. *)
PutPixelEnds_swallowed(outcome) == FALSE

(* check_pixel, line 109: put_pixel is awaited outside any try statement,  *)
(* so whatever it raises leaves check_pixel and its caller.                *)
PutPixelEnds(outcome) == outcome # "ok"

(* draw(top_to_bottom): entry. *)
draw(t) ==
    /\ dpc = "idle"
    /\ plan' = [plan EXCEPT !.top_to_bottom = t]
    /\ call' = [strategy |-> "draw", forever |-> FALSE]
    /\ scan' = 1
    /\ dpc' = "update_canvas"
    /\ UNCHANGED <<canvas, canvas0, cache, writes, work_to_do, failure, foreign>>
    /\ UNCHANGED <<limVars, cliVars, storeVars, taskVars, pureVars>>

(* draw_and_fix(forever, top_to_bottom): entry, lines 124-125. *)
draw_and_fix(f, t) ==
    /\ dpc = "idle"
    /\ plan' = [plan EXCEPT !.top_to_bottom = t]
    /\ call' = [strategy |-> "draw_and_fix", forever |-> f]
    /\ work_to_do' = TRUE
    /\ scan' = 1
    /\ dpc' = "update_canvas"
    /\ UNCHANGED <<canvas, canvas0, cache, writes, failure, foreign>>
    /\ UNCHANGED <<limVars, cliVars, storeVars, taskVars, pureVars>>

(* update_canvas, client.get_canvas ending as `outcome`: before a scan     *)
(* (lines 114 and 126, then 127) and after a write (lines 117 and 131).    *)
update_canvas(outcome) ==
    /\ dpc \in {"update_canvas", "update_canvas_after"}
    /\ IF outcome = "ok"
       THEN cache' = [have |-> TRUE, grid |-> canvas] /\ failure' = failure
       ELSE cache' = cache /\ failure' = [call |-> "get_canvas", class |-> outcome]
    /\ IF outcome # "ok" /\ ~UpdateCanvasCatches(outcome)
       THEN dpc' = "raised" /\ work_to_do' = work_to_do
       ELSE IF dpc = "update_canvas_after" /\ BreaksAfterWrite(call)
       THEN dpc' = "after_for" /\ work_to_do' = work_to_do
       ELSE /\ dpc' = "loop"
            /\ work_to_do' = IF dpc = "update_canvas" /\ call.strategy = "draw_and_fix"
                             THEN ScanStartsWith(work_to_do) ELSE work_to_do
    /\ UNCHANGED <<plan, canvas, canvas0, scan, writes, call, foreign>>
    /\ UNCHANGED <<limVars, cliVars, storeVars, taskVars, pureVars>>

(* One iteration of the for loop (lines 115-117, 128-132): check_pixel on  *)
(* the next coordinate, client.put_pixel ending as `outcome` when called.  *)
check_pixel(outcome) ==
    /\ dpc = "loop"
    /\ scan <= Len(IterCoords(plan))
    /\ LET x == IterCoords(plan)[scan][1]
           y == IterCoords(plan)[scan][2]
           colour == GridCell(plan, x, y).colour
       IN  IF ~ShouldWrite(plan, cache, x, y)
           THEN /\ outcome = "ok"
                /\ scan' = scan + 1
                /\ UNCHANGED <<canvas, writes, dpc, work_to_do, failure>>
           ELSE /\ writes' = IF call.strategy = "draw"
                                THEN Append(writes, WriteCall(x, y, colour)) ELSE writes
                /\ failure' = IF outcome = "ok" THEN failure
                               ELSE [call |-> "put_pixel", class |-> outcome]
                /\ IF ~PutPixelEnds(outcome)
                   THEN /\ canvas' = IF outcome = "ok"
                                     THEN ServerSetPixel(canvas, x, y, parse_colour(colour))
                                     ELSE canvas
                        /\ scan' = IF BreaksAfterWrite(call) THEN scan ELSE scan + 1
                        /\ work_to_do' = IF call.strategy = "draw_and_fix"
                                         THEN TRUE ELSE work_to_do
                        /\ dpc' = "update_canvas_after"
                   ELSE /\ dpc' = "raised"
                        /\ UNCHANGED <<canvas, scan, work_to_do>>
    /\ UNCHANGED <<plan, canvas0, cache, call, foreign>>
    /\ UNCHANGED <<limVars, cliVars, storeVars, taskVars, pureVars>>

(* The loop of draw is exhausted: draw returns. *)
draw_return ==
    /\ dpc = "loop"
    /\ call.strategy = "draw"
    /\ scan > Len(IterCoords(plan))
    /\ dpc' = "done"
    /\ UNCHANGED <<plan, canvas, canvas0, cache, scan, writes,
                   call, work_to_do, failure, foreign>>
    /\ UNCHANGED <<limVars, cliVars, storeVars, taskVars, pureVars>>

NextDraw ==
    \/ \E t \in BOOLEAN : draw(t)
    \/ \E o \in ClientOutcomes : update_canvas(o)
    \/ \E o \in ClientOutcomes : check_pixel(o)
    \/ draw_return

SpecDraw == InitDraw /\ [][NextDraw]_vars

---------------------------------------------------------------------------
(***************************************************************************)
(* AutoDrawer.draw and AutoDrawer.draw_and_fix over a canvas that other    *)
(* agents write as well (SpecFix).                                         *)
(***************************************************************************)
(* Pixels other agents set in one behaviour. *)
MaxForeign == 1

(* Cells of the largest grid of SpecFix. *)
MaxFixCells == 2

FixGrids == { g \in Grids : GridWidth(g) * GridHeight(g) <= MaxFixCells }

(* The grids of two rows and two columns, where the two scan orders differ. *)
SquareGrids == { g \in Grids : GridWidth(g) = 2 /\ GridHeight(g) = 2 }

(* Every grid of up to MaxFixCells cells on every canvas, and the square   *)
(* grids on a canvas whose region is blue.                                 *)
InitFix ==
    /\ InitDraw
    /\ \/ plan.grid \in FixGrids
       \/ plan.grid \in SquareGrids /\ \A xy \in Region(plan) : canvas[xy] = Blue

(* The for loop of draw_and_fix is exhausted (line 128). *)
fix_scan_done ==
    /\ dpc = "loop"
    /\ call.strategy = "draw_and_fix"
    /\ scan > Len(IterCoords(plan))
    /\ dpc' = "after_for"
    /\ UNCHANGED <<plan, canvas, canvas0, cache, scan, writes,
                   call, work_to_do, failure, foreign>>
    /\ UNCHANGED <<limVars, cliVars, storeVars, taskVars, pureVars>>

(* Lines 133-135: after a clean scan in persistent mode, sleep. *)
fix_after_for ==
    /\ dpc = "after_for"
    /\ dpc' = IF call.forever /\ ~work_to_do THEN "sleep" ELSE "while"
    /\ UNCHANGED <<plan, canvas, canvas0, cache, scan, writes,
                   call, work_to_do, failure, foreign>>
    /\ UNCHANGED <<limVars, cliVars, storeVars, taskVars, pureVars>>

(* Line 136: asyncio.sleep(FixInterval) is over. *)
fix_wake ==
    /\ dpc = "sleep"
    /\ work_to_do' = TRUE
    /\ dpc' = "while"
    /\ UNCHANGED <<plan, canvas, canvas0, cache, scan, writes,
                   call, failure, foreign>>
    /\ UNCHANGED <<limVars, cliVars, storeVars, taskVars, pureVars>>

(* Line 125: the while test holds, the next scan starts at line 126. *)
fix_again ==
    /\ dpc = "while"
    /\ work_to_do
    /\ scan' = 1
    /\ dpc' = "update_canvas"
    /\ UNCHANGED <<plan, canvas, canvas0, cache, writes,
                   call, work_to_do, failure, foreign>>
    /\ UNCHANGED <<limVars, cliVars, storeVars, taskVars, pureVars>>

(* Line 125: the while test fails, draw_and_fix returns. *)
fix_return ==
    /\ dpc = "while"
    /\ ~work_to_do
    /\ dpc' = "done"
    /\ UNCHANGED <<plan, canvas, canvas0, cache, scan, writes,
                   call, work_to_do, failure, foreign>>
    /\ UNCHANGED <<limVars, cliVars, storeVars, taskVars, pureVars>>

(* Another agent sets a pixel of the region while the drawer runs. *)
other_agent(xy, c) ==
    /\ dpc \notin {"idle", "done", "raised"}
    /\ foreign < MaxForeign
    /\ canvas[xy] # c
    /\ canvas' = [canvas EXCEPT ![xy] = c]
    /\ foreign' = foreign + 1
    /\ UNCHANGED <<plan, canvas0, cache, scan, writes, dpc,
                   call, work_to_do, failure>>
    /\ UNCHANGED <<limVars, cliVars, storeVars, taskVars, pureVars>>

DrawerStep ==
    \/ \E o \in ClientOutcomes : update_canvas(o)
    \/ \E o \in ClientOutcomes : check_pixel(o)
    \/ draw_return
    \/ fix_scan_done
    \/ fix_after_for
    \/ fix_wake
    \/ fix_again
    \/ fix_return

NextFix ==
    \/ \E t \in BOOLEAN : draw(t)
    \/ \E f, t \in BOOLEAN : draw_and_fix(f, t)
    \/ DrawerStep
    \/ \E xy \in Region(plan), c \in CanvasColours : other_agent(xy, c)

SpecFix == InitFix /\ [][NextFix]_vars

(* draw_and_fix while every call of the client succeeds.  The event loop   *)
(* resumes the coroutine whenever the call it awaits has ended, so the     *)
(* drawer's steps are weakly fair; other agents owe nothing.               *)
DrawerStepOk ==
    \/ update_canvas("ok")
    \/ check_pixel("ok")
    \/ fix_scan_done
    \/ fix_after_for
    \/ fix_wake
    \/ fix_again
    \/ fix_return

NextFixOk ==
    \/ \E f, t \in BOOLEAN : draw_and_fix(f, t)
    \/ DrawerStepOk
    \/ \E xy \in Region(plan), c \in CanvasColours : other_agent(xy, c)

SpecFixFair == InitFix /\ [][NextFixOk]_vars /\ WF_vars(DrawerStepOk)

---------------------------------------------------------------------------
(***************************************************************************)
(* Two coroutines inside Client.request of one Client (SpecConc).  A       *)
(* coroutine runs until it is suspended: in asyncio.sleep inside pause     *)
(* (only when pause sleeps) or while its HTTP request is in flight.        *)
(***************************************************************************)
Tasks == {1, 2}

IdleTask ==
    [pc |-> "idle", req |-> NoRequest, retry |-> FALSE, branch |-> "none",
     seen |-> NewEndpoint, error |-> NoError]

(* The branch of RateLimitEndpoint.pause that sleeps (lines 40-44, 52-54). *)
PauseBranch(st) == IF Truthy(st.cooldown_reset) THEN "cooldown" ELSE "quota"

(* pause, line 43: after the sleep of the cooldown branch. *)
AfterSleep(rl, e, branch) ==
    IF branch = "cooldown"
    THEN SetLimiter(rl, e, [LimiterOf(rl, e) EXCEPT !.cooldown_reset = None])
    ELSE rl

(* Lines 95-99: the top of the while loop.  pause either suspends the      *)
(* coroutine or returns at once, and then the request is sent.             *)
BeginIteration(rl, tk) ==
    LET st == LimiterOf(rl, tk.req.endpoint)
    IN  [task |-> [tk EXCEPT !.pc = IF PauseSleep(st) > 0 THEN "sleeping_before"
                                    ELSE "in_flight",
                             !.branch = PauseBranch(st),
                             !.seen = st],
         rl |-> SetLimiter(rl, tk.req.endpoint, st)]

(* Line 107 and the loop test: return, or go round again. *)
AfterPause(rl, tk) ==
    IF tk.retry THEN BeginIteration(rl, tk)
    ELSE [task |-> [tk EXCEPT !.pc = "returned"], rl |-> rl]

(* Lines 105-106: the pause after the try statement. *)
AfterTry(rl, tk) ==
    LET st == LimiterOf(rl, tk.req.endpoint)
    IN  IF PausesAfter(tk.req) /\ PauseSleep(st) > 0
        THEN [task |-> [tk EXCEPT !.pc = "sleeping_after", !.branch = PauseBranch(st)],
              rl |-> SetLimiter(rl, tk.req.endpoint, st)]
        ELSE IF PausesAfter(tk.req)
        THEN AfterPause(SetLimiter(rl, tk.req.endpoint, st), tk)
        ELSE AfterPause(rl, tk)

ConcRequests ==
    { put_pixel_request(d) : d \in PixelData }
    \cup { get_pixel_request(p) : p \in PixelParams }
    \cup { get_canvas_size_request }

InitConc ==
    /\ ratelimits = EmptyLimiter
    /\ lastOp = NoOp
    /\ ghost = NoGhost
    /\ ClientIdle
    /\ DrawIdle
    /\ StoreIdle
    /\ made = NoCanvasMade
    /\ tasks = [t \in Tasks |-> IdleTask]

(* A coroutine calls Client.request and runs to its first suspension. *)
conc_request(t, q) ==
    /\ tasks[t].pc \in {"idle", "returned", "raised"}
    /\ sends < MaxSends
    /\ sends' = sends + 1
    /\ LET go == BeginIteration(ratelimits,
                     [IdleTask EXCEPT !.req = q, !.retry = TRUE])
       IN  /\ tasks' = [tasks EXCEPT ![t] = go.task]
           /\ ratelimits' = go.rl
    /\ UNCHANGED <<lastOp, ghost, pc, op, req, retry, resp, raised, events, sizes, windows>>
    /\ UNCHANGED <<drawVars, storeVars, pureVars>>

(* asyncio.sleep is over: pause returns and the coroutine runs on. *)
conc_wake(t) ==
    /\ tasks[t].pc \in {"sleeping_before", "sleeping_after"}
    /\ LET tk == tasks[t]
           rl == AfterSleep(ratelimits, tk.req.endpoint, tk.branch)
           go == IF tk.pc = "sleeping_before"
                 THEN [task |-> [tk EXCEPT !.pc = "in_flight"], rl |-> rl]
                 ELSE AfterPause(rl, tk)
       IN  /\ tk.pc = "sleeping_after" /\ tk.retry => sends < MaxSends
           /\ sends' = IF tk.pc = "sleeping_after" /\ tk.retry THEN sends + 1 ELSE sends
           /\ tasks' = [tasks EXCEPT ![t] = go.task]
           /\ ratelimits' = go.rl
    /\ UNCHANGED <<lastOp, ghost, pc, op, req, retry, resp, raised, events, sizes, windows>>
    /\ UNCHANGED <<drawVars, storeVars, pureVars>>

(* The answer r to the request in flight arrives: send_request ends, and   *)
(* request runs to its next suspension or to its end.                      *)
conc_response(t, r) ==
    /\ tasks[t].pc = "in_flight"
    /\ LET tk == tasks[t]
           err == SendRequestError(tk.req.method, r)
           rl == IF SendRequestUpdates(tk.req.method, r)
                 THEN LimiterUpdate(ratelimits, tk.req.endpoint, r.headers)
                 ELSE ratelimits
           again == err # NoError /\ RetryAfter(err)
           go == IF err # NoError /\ ~again
                 THEN [task |-> [tk EXCEPT !.pc = "raised", !.error = err], rl |-> rl]
                 ELSE AfterTry(rl, [tk EXCEPT !.retry = again])
           resent == again /\ go.task.pc # "sleeping_after"
       IN  /\ again => sends < MaxSends
           /\ sends' = IF resent THEN sends + 1 ELSE sends
           /\ tasks' = [tasks EXCEPT ![t] = go.task]
           /\ ratelimits' = go.rl
    /\ UNCHANGED <<lastOp, ghost, pc, op, req, retry, resp, raised, events, sizes, windows>>
    /\ UNCHANGED <<drawVars, storeVars, pureVars>>

NextConc ==
    \/ \E t \in Tasks, q \in ConcRequests : conc_request(t, q)
    \/ \E t \in Tasks : conc_wake(t)
    \/ \E t \in Tasks, r \in Responses : conc_response(t, r)

SpecConc == InitConc /\ [][NextConc]_vars

---------------------------------------------------------------------------
(***************************************************************************)
(* Properties of Client.request (Spec).                                    *)
(***************************************************************************)
SendIdx == { i \in 1..Len(events) : events[i].kind = "send" }

LastSend == CHOOSE i \in SendIdx : \A j \in SendIdx : j <= i

Count429 == Cardinality({ i \in SendIdx : events[i].status = 429 })

IsSuccess(status) == status >= 200 /\ status <= 399

SameArguments(ev, q) ==
    /\ ev.method = q.method /\ ev.endpoint = q.endpoint
    /\ ev.data = q.data /\ ev.params = q.params

Kinds == [i \in 1..Len(events) |-> events[i].kind]

WriteOps == {"put_pixel", "swap_pixels"}
ReadOps == {"get_canvas_size", "get_canvas", "get_canvas.get_canvas_size", "get_pixel"}

(* C1: request never surfaces a 429.  Every send of a call carries the     *)
(* call's method, endpoint, payload and query; a send is followed by       *)
(* another one exactly when it was answered 429; after k answers 429 and   *)
(* one answer 200-399 the call has made k+1 sends and returns the parsed   *)
(* body of the last one.                                                   *)
C1_RetriesOn429 ==
    /\ raised.class # "RatelimitedError"
    /\ \A i \in SendIdx :
          /\ SameArguments(events[i], req)
          /\ i # LastSend => events[i].status = 429
          /\ (i = LastSend /\ events[i].status = 429) =>
                retry /\ pc \in {"pause_before", "pause_after", "send"}
          /\ (i = LastSend /\ IsSuccess(events[i].status)) =>
                /\ pc \in {"pause_after", "returned"}
                /\ ~retry
                /\ resp = events[i].body
                /\ raised = NoError
    /\ pc = "returned" =>
          /\ SendIdx # {}
          /\ IsSuccess(events[LastSend].status)
          /\ Cardinality(SendIdx) = Count429 + 1

(* C1, witness: 429 once, then a success: two sends and the body returned. *)
C1_Witness ==
    /\ pc = "returned"
    /\ Cardinality(SendIdx) = 2
    /\ Count429 = 1
    /\ resp = SuccessBody

(* C2: after every response (success, 429, other 4xx, 5xx) the endpoint's   *)
(* state is updated from the response's headers, and the wait that follows *)
(* a 429 carrying Cooldown-Reset c suspends for c.                         *)
C2_UpdatedAfterEveryResponse ==
    \A i \in SendIdx :
        /\ i + 1 <= Len(events)
        /\ events[i + 1].kind = "update"
        /\ events[i + 1].endpoint = events[i].endpoint
        /\ events[i + 1].headers = events[i].headers
        /\ \A j \in (i + 1)..Len(events) :
              ( /\ events[i].status = 429
                /\ events[i].headers.cooldown > 0
                /\ events[j].kind = "pause"
                /\ \A k \in (i + 1)..(j - 1) : events[k].kind # "pause" )
              => events[j].slept = events[i].headers.cooldown

(* C3: a 4xx answer other than 429 ends the call with a client error that  *)
(* carries the status and the message (else the detail) of the body, an    *)
(* answer >= 500 ends it with a server error; no send follows, and the     *)
(* sends of the call are that one plus those answered 429 before it.       *)
C3_ErrorsSurfaceUnretried ==
    /\ \A i \in SendIdx :
          LET s == events[i].status
              b == events[i].body
          IN  /\ (s >= 400 /\ s <= 499 /\ s # 429) =>
                    /\ pc = "raised"
                    /\ i = LastSend
                    /\ raised.class \in {"HttpClientError", "MethodNotAllowedError"}
                    /\ raised.code = s
                    /\ b.message # Absent => raised.message = b.message
                    /\ (b.message = Absent /\ b.detail # Absent) =>
                          raised.message = b.detail
              /\ s >= 500 =>
                    /\ pc = "raised"
                    /\ i = LastSend
                    /\ raised.class = "ServerError"
    /\ pc = "raised" =>
          /\ SendIdx # {}
          /\ events[LastSend].status >= 400
          /\ events[LastSend].status # 429
          /\ Cardinality(SendIdx) = Count429 + 1

(* C3, witness: a 400 whose body has only `detail`, after a single send. *)
C3_Witness ==
    /\ pc = "raised"
    /\ raised.class = "HttpClientError"
    /\ raised.code = 400
    /\ raised.message = "det"
    /\ Cardinality(SendIdx) = 1

(* C4: the events of a returned write that met no 429 end with send,       *)
(* update, wait, and no rate-limit wait suspends before its send.          *)
C4_NoWaitBeforeWrite ==
    (pc = "returned" /\ op \in WriteOps /\ Count429 = 0) =>
        /\ Len(events) >= 3
        /\ SubSeq(Kinds, Len(events) - 2, Len(events)) = <<"send", "update", "pause">>
        /\ \A i \in 1..Len(events) :
              (events[i].kind = "pause" /\ i < LastSend) => events[i].slept = 0

(* What request does for a write (C4): the events of a returned write are, *)
(* per answer 429, wait, send, wait, and then wait, send, update, wait: a  *)
(* wait precedes every send as well, and the wait after the update         *)
(* precedes the return.                                                    *)
WriteWaitsBeforeAndAfter ==
    /\ op \in WriteOps => req.ratelimit_after
    /\ (pc = "returned" /\ op \in WriteOps) =>
          LET k == Count429
          IN  /\ Len(events) = 3 * k + 4
              /\ \A a \in 0..(k - 1) :
                    /\ Kinds[3 * a + 1] = "pause"
                    /\ Kinds[3 * a + 2] = "send" /\ events[3 * a + 2].status = 429
                    /\ Kinds[3 * a + 3] = "pause"
              /\ SubSeq(Kinds, 3 * k + 1, 3 * k + 4) = <<"pause", "send", "update", "pause">>
              /\ \A i \in 1..Len(events) : events[i].endpoint = req.endpoint
    /\ (pc = "pause_after" /\ op \in WriteOps /\ ~retry) =>
          /\ Len(events) >= 2
          /\ SubSeq(Kinds, Len(events) - 1, Len(events)) = <<"send", "update">>

(* A put_pixel that returned after a first wait that slept (C4). *)
WriteSleptBeforeSend ==
    /\ pc = "returned"
    /\ op = "put_pixel"
    /\ Count429 = 0
    /\ Kinds = <<"pause", "send", "update", "pause">>
    /\ events[1].slept = 5
    /\ events[4].slept = 5

(* C5: the events of a returned read are, per answer 429, wait, send, and  *)
(* then wait, send, update: every send directly follows a wait on its      *)
(* endpoint and no wait lies between the last answer and the return.       *)
C5_ReadWaitsBefore ==
    /\ op \in ReadOps =>
          /\ ~req.ratelimit_after
          /\ \A i \in SendIdx :
                /\ i > 1
                /\ events[i - 1].kind = "pause"
                /\ events[i - 1].endpoint = events[i].endpoint
          /\ \A i \in 1..Len(events) :
                events[i].kind = "pause" => (i = 1 \/ events[i - 1].kind = "send")
    /\ (pc = "returned" /\ op \in ReadOps) =>
          LET k == Count429
          IN  /\ Len(events) = 2 * k + 3
              /\ \A a \in 0..(k - 1) :
                    /\ Kinds[2 * a + 1] = "pause"
                    /\ Kinds[2 * a + 2] = "send" /\ events[2 * a + 2].status = 429
              /\ SubSeq(Kinds, 2 * k + 1, 2 * k + 3) = <<"pause", "send", "update">>
              /\ \A i \in 1..Len(events) : events[i].endpoint = req.endpoint

(* C5, witness: a get_pixel that returned after one answer 429. *)
C5_Witness ==
    /\ pc = "returned"
    /\ op = "get_pixel"
    /\ Count429 = 1
    /\ Kinds = <<"pause", "send", "pause", "send", "update">>

---------------------------------------------------------------------------
(***************************************************************************)
(* Properties of RateLimitEndpoint (SpecLimiter).                          *)
(***************************************************************************)
LastState == LimiterOf(ratelimits, lastOp.endpoint)

(* The wait of the quota window, as the contract words it. *)
QuotaWait(st) ==
    IF st.ratelimited /\ st.remaining = 0 /\ st.reset # None THEN st.reset ELSE 0

(* C6: an update that saw Cooldown-Reset c > 0 sets remaining to 0, records *)
(* c and leaves limit and reset; the next pause sleeps exactly c whatever  *)
(* remaining, reset and the flag are, and clears the cooldown; a pause     *)
(* with no cooldown header since the previous pause sleeps the quota wait. *)
C6_CooldownOverridesThenClears ==
    /\ (lastOp.kind = "update" /\ lastOp.headers.cooldown > 0) =>
          /\ LastState.remaining = 0
          /\ LastState.cooldown_reset = lastOp.headers.cooldown
          /\ LastState.limit = lastOp.pre.limit
          /\ LastState.reset = lastOp.pre.reset
    /\ (lastOp.kind = "pause" /\ lastOp.seen.cooldown > 0) =>
          /\ lastOp.slept = lastOp.seen.cooldown
          /\ LastState.cooldown_reset = None
    /\ (lastOp.kind = "pause" /\ lastOp.seen.cooldown = None) =>
          lastOp.slept = QuotaWait(lastOp.pre)
    /\ lastOp.kind = "pause" => ~Truthy(LastState.cooldown_reset)

(* C6, witness: a pause that slept the cooldown although the endpoint has  *)
(* quota left and is marked not rate-limited.                              *)
C6_Witness ==
    /\ lastOp.kind = "pause"
    /\ lastOp.seen.cooldown = 7
    /\ lastOp.pre.remaining = 2
    /\ ~lastOp.pre.ratelimited
    /\ lastOp.slept = 7

(* C7: with no cooldown active, pause does not sleep when remaining > 0 or *)
(* the endpoint is marked not rate-limited, and sleeps exactly reset       *)
(* seconds when it is rate-limited with remaining = 0 (nothing when no     *)
(* reset was ever recorded); the first pause on an endpoint that was never *)
(* referenced creates its entry, does not sleep and raises nothing.        *)
C7_QuotaWait ==
    /\ (lastOp.kind = "pause" /\ ~Truthy(lastOp.pre.cooldown_reset)) =>
          /\ (lastOp.pre.remaining > 0 \/ ~lastOp.pre.ratelimited) => lastOp.slept = 0
          /\ (lastOp.pre.ratelimited /\ lastOp.pre.remaining = 0) =>
                lastOp.slept = IF lastOp.pre.reset = None THEN 0 ELSE lastOp.pre.reset
          /\ LastState = lastOp.pre
    /\ (lastOp.kind = "pause" /\ ~lastOp.existed) =>
          /\ lastOp.slept = 0
          /\ lastOp.error = "none"
          /\ lastOp.endpoint \in DOMAIN ratelimits
          /\ LastState.remaining > 0

(* C7, witness: a pause that slept the quota window. *)
C7_Witness ==
    /\ lastOp.kind = "pause"
    /\ lastOp.pre.cooldown_reset = None
    /\ lastOp.pre.ratelimited
    /\ lastOp.pre.remaining = 0
    /\ lastOp.pre.reset = 5
    /\ lastOp.slept = 5

(* C8 as stated: after an update whose headers carry the quota signal and  *)
(* no cooldown, remaining, limit and reset equal the header values and the *)
(* endpoint is marked rate-limited, whatever the state was before.         *)
C8_QuotaMarksLimited ==
    ( /\ lastOp.kind = "update"
      /\ lastOp.headers.cooldown = None
      /\ lastOp.headers.remaining # None
      /\ lastOp.headers.reset # None ) =>
        /\ LastState.remaining = lastOp.headers.remaining
        /\ LastState.limit = lastOp.headers.limit
        /\ LastState.reset = lastOp.headers.reset
        /\ LastState.ratelimited

(* C8, amended: remaining and limit equal the header values, reset equals  *)
(* Requests-Reset when it is sent and is left otherwise, and the flag is   *)
(* left as it was: the endpoint is marked rate-limited unless an earlier   *)
(* response carried neither signal.                                        *)
C8_QuotaRecorded ==
    ( /\ lastOp.kind = "update"
      /\ lastOp.headers.cooldown = None
      /\ lastOp.headers.remaining # None ) =>
        /\ LastState.remaining = lastOp.headers.remaining
        /\ LastState.limit = lastOp.headers.limit
        /\ LastState.reset = IF lastOp.headers.reset # None
                             THEN lastOp.headers.reset ELSE lastOp.pre.reset
        /\ LastState.cooldown_reset = lastOp.pre.cooldown_reset
        /\ LastState.ratelimited = lastOp.pre.ratelimited
        /\ LastState.ratelimited <=> ~lastOp.seen.unlimited

(* C8, witness: quota headers overwrite other values on an endpoint that   *)
(* is marked not rate-limited.                                             *)
C8_Witness ==
    /\ lastOp.kind = "update"
    /\ lastOp.headers = [cooldown |-> None, remaining |-> 2, limit |-> 3, reset |-> 5]
    /\ lastOp.pre.remaining = 0
    /\ lastOp.pre.limit = 2
    /\ lastOp.pre.reset = 0
    /\ ~lastOp.pre.ratelimited
    /\ ~LastState.ratelimited

(* C9: once an update saw neither signal the endpoint is marked not        *)
(* rate-limited for good, and every later pause made while no cooldown is  *)
(* active does not sleep, whatever headers came in between.                *)
C9_UnlimitedForGood ==
    /\ \A e \in Endpoints :
          ghost[e].unlimited => (e \in DOMAIN ratelimits /\ ~ratelimits[e].ratelimited)
    /\ ( /\ lastOp.kind = "pause"
         /\ lastOp.seen.unlimited
         /\ ~Truthy(lastOp.pre.cooldown_reset) ) => lastOp.slept = 0

(* C9, witness: a pause that does not sleep on an endpoint marked not      *)
(* rate-limited whose later headers said remaining = 0, reset = 5.         *)
C9_Witness ==
    /\ lastOp.kind = "pause"
    /\ lastOp.seen.unlimited
    /\ lastOp.pre.remaining = 0
    /\ lastOp.pre.reset = 5
    /\ lastOp.pre.cooldown_reset = None
    /\ lastOp.slept = 0

---------------------------------------------------------------------------
(***************************************************************************)
(* Properties of AutoDrawer.draw (SpecDraw).                               *)
(***************************************************************************)
TargetAt(pl, xy) == pl.grid[(xy[2] - pl.y0) + 1][(xy[1] - pl.x0) + 1]

(* The opaque cells whose colour differs from the canvas c. *)
Mismatching(pl, c) ==
    { xy \in Region(pl) : TargetAt(pl, xy).opaque /\ TargetAt(pl, xy).colour # c[xy] }

(* Scan order: by column when top_to_bottom, by row otherwise. *)
ScanBefore(pl, a, b) ==
    IF pl.top_to_bottom
    THEN a[1] < b[1] \/ (a[1] = b[1] /\ a[2] < b[2])
    ELSE a[2] < b[2] \/ (a[2] = b[2] /\ a[1] < b[1])

WriteAt(i) == <<writes[i].x, writes[i].y>>

ExamplePlan ==
    /\ plan.x0 = 2 /\ plan.y0 = 3
    /\ plan.grid = << <<Cell(Red, TRUE), Cell(Green, TRUE)>> >>
    /\ canvas0[<<2, 3>>] = Red
    /\ canvas0[<<3, 3>>] = Blue

(* C10: draw issues put_pixel only for opaque cells whose colour differs   *)
(* from the canvas it started on, in scan order (so each at most once),    *)
(* at the cell's absolute coordinates with the target colour, and when it  *)
(* returns it has done so for every such cell; on the example plan the     *)
(* writes are the single put_pixel(3, 3, #00FF00).                         *)
C10_DrawWritesTheMismatches ==
    /\ \A i \in 1..Len(writes) :
          /\ WriteAt(i) \in Mismatching(plan, canvas0)
          /\ writes[i].colour = TargetAt(plan, WriteAt(i)).colour
          /\ from_hex(writes[i].rgb) = writes[i].colour
          /\ \A j \in 1..Len(writes) : i < j => ScanBefore(plan, WriteAt(i), WriteAt(j))
    /\ dpc = "done" =>
          /\ { WriteAt(i) : i \in 1..Len(writes) } = Mismatching(plan, canvas0)
          /\ Mismatching(plan, canvas) = {}
          /\ ExamplePlan =>
                writes = << [x |-> 3, y |-> 3, colour |-> Green,
                             rgb |-> <<"0", "0", "f", "f", "0", "0">>] >>

(* C10, witness: the example plan, drawn. *)
C10_Witness ==
    /\ dpc = "done"
    /\ ExamplePlan
    /\ Len(writes) = 1

---------------------------------------------------------------------------
(***************************************************************************)
(* Properties of AutoDrawer.draw and AutoDrawer.draw_and_fix on a shared   *)
(* canvas (SpecFix).                                                       *)
(***************************************************************************)
(* check_pixel has just called put_pixel (it returned, or raised and ended *)
(* the drawer).                                                            *)
JustPut ==
    \/ dpc = "update_canvas_after"
    \/ dpc = "raised" /\ failure.call = "put_pixel"

(* The coordinate of that call: without a break the loop has moved on. *)
PutCell ==
    IterCoords(plan)[IF dpc = "update_canvas_after" /\ ~BreaksAfterWrite(call)
                     THEN scan - 1 ELSE scan]

(* C11: neither draw nor draw_and_fix ever calls put_pixel for a cell      *)
(* whose opaque flag is false, whatever the canvas holds and whatever      *)
(* other agents write.                                                     *)
C11_NeverWritesTransparent ==
    /\ \A i \in 1..Len(writes) : TargetAt(plan, WriteAt(i)).opaque
    /\ JustPut => TargetAt(plan, PutCell).opaque

(* C11, witness: draw_and_fix wrote the second cell after it passed a      *)
(* non-opaque first cell whose colour the canvas does not have, on a       *)
(* canvas another agent wrote.                                             *)
C11_Witness ==
    /\ call.strategy = "draw_and_fix"
    /\ dpc = "update_canvas_after"
    /\ scan = 2
    /\ foreign > 0
    /\ ~TargetAt(plan, IterCoords(plan)[1]).opaque
    /\ TargetAt(plan, IterCoords(plan)[1]).colour # canvas[IterCoords(plan)[1]]


OneShot == call.strategy = "draw_and_fix" /\ ~call.forever

(* C12: draw_and_fix(forever=False) returns only after a scan of the whole *)
(* region that found no opaque cell differing from its snapshot, and once  *)
(* started it does return, the server applying its writes and the other    *)
(* agents writing finitely often.                                          *)
C12_OneShotReturnsWhenClean ==
    /\ []((OneShot /\ dpc = "done") =>
            /\ cache.have
            /\ scan > Len(IterCoords(plan))
            /\ Mismatching(plan, cache.grid) = {})
    /\ (OneShot ~> dpc = "done")

(* C12, witness: a one-shot draw_and_fix returned on a plan that started   *)
(* with two mismatching cells and saw another agent write: it took more    *)
(* than one corrective pass.                                               *)
C12_Witness ==
    /\ OneShot
    /\ dpc = "done"
    /\ Cardinality(Mismatching(plan, canvas0)) = 2
    /\ foreign > 0


---------------------------------------------------------------------------
(***************************************************************************)
(* Failures of the client inside the drawer (SpecDraw, SpecFix).           *)
(***************************************************************************)
(* The opaque cells among the first n coordinates of the scan. *)
OpaqueAmong(n) ==
    { IterCoords(plan)[i] : i \in { j \in 1..n : TargetAt(plan, IterCoords(plan)[j]).opaque } }

(* C13: a canvas read that fails inside update_canvas does not end draw:   *)
(* only a put_pixel can, and while no snapshot is held every opaque cell   *)
(* visited has been written.                                               *)
C13_CanvasReadFailureTolerated ==
    /\ dpc = "raised" => failure.call = "put_pixel"
    /\ (dpc = "loop" /\ ~cache.have) =>
          OpaqueAmong(scan - 1) = { WriteAt(i) : i \in 1..Len(writes) }


---------------------------------------------------------------------------
(***************************************************************************)
(* Properties of the operations built on Client.request (Spec).            *)
(***************************************************************************)
(* C14: over any sequence of get_canvas_size and get_canvas calls at most  *)
(* one get_size request is answered with success: once the size is known   *)
(* no call sends a get_size request again.                                 *)
C14_SizeRequestedOnce ==
    /\ sizes <= 1
    /\ sizes >= 1 => ~(req.endpoint = "get_size" /\ pc \in {"pause_before", "send"})


(* C15: a put_pixel that fails inside draw ends draw with that error at    *)
(* that cell: the failed call is the last write, for the cell the scan     *)
(* stands on, and no cell later in scan order has been written.            *)
C15_WriteErrorEndsDraw ==
    (call.strategy = "draw" /\ failure.call = "put_pixel") =>
        /\ dpc = "raised"
        /\ failure.class \in {"HttpClientError", "ServerError"}
        /\ Len(writes) >= 1
        /\ WriteAt(Len(writes)) = IterCoords(plan)[scan]
        /\ \A i \in 1..(Len(writes) - 1) :
              ScanBefore(plan, WriteAt(i), IterCoords(plan)[scan])

(* C15, witness: draw ended by the error of its second write while a later *)
(* opaque cell still differs from the canvas.                              *)
C15_Witness ==
    /\ call.strategy = "draw"
    /\ dpc = "raised"
    /\ failure = [call |-> "put_pixel", class |-> "ServerError"]
    /\ Len(writes) = 2
    /\ \E xy \in Mismatching(plan, canvas) :
          ScanBefore(plan, IterCoords(plan)[scan], xy)


(* C16: draw_and_fix(forever=True) never returns, and an answer >= 500 to  *)
(* a canvas read or a pixel write (a ServerError of the client) does not   *)
(* end it.                                                                 *)
C16_PersistentSurvivesServerErrors ==
    (call.strategy = "draw_and_fix" /\ call.forever) =>
        /\ dpc # "done"
        /\ failure.class = "ServerError" => dpc # "raised"


---------------------------------------------------------------------------
(***************************************************************************)
(* Properties of the construction (SpecStore).                             *)
(***************************************************************************)
Constructed == built.who # "none"

(* What a stored object says an endpoint's state is. *)
Restored(st, d) ==
    /\ st.remaining = d.remaining /\ st.limit = d.limit /\ st.reset = d.reset
    /\ st.cooldown_reset = IF d.cooldown_reset = NoKey THEN 0 ELSE d.cooldown_reset

(* How the construction treats the stores it can read or finds missing. *)
LoadsWhatIsReadable ==
    /\ (Constructed /\ ~SaveFileSet(save_file)) =>
          built.error = "none" /\ ratelimits = EmptyLimiter /\ save_data = NoSaveData
    /\ (Constructed /\ save_file \in SaveFiles /\ SaveFileSet(save_file)
           /\ store.kind = "json") =>
          /\ built.error = "none"
          /\ DOMAIN ratelimits = DOMAIN store.data
          /\ \A e \in DOMAIN store.data : Restored(ratelimits[e], store.data[e])
    /\ (Constructed /\ save_file \in SaveFiles /\ store.kind = "missing") =>
          built.error = "none" /\ ratelimits = EmptyLimiter

(* C17: the construction of a RateLimiter or of a Client never ends with   *)
(* an exception of the store: without a store nothing is read, a readable  *)
(* store pre-populates the endpoints, a missing or unreadable one leaves   *)
(* the map empty.                                                          *)
C17_ConstructionNeverFails ==
    /\ built.error = "none"
    /\ LoadsWhatIsReadable
    /\ (Constructed /\ store.kind \in {"missing", "unreadable", "malformed"}) =>
          ratelimits = EmptyLimiter


---------------------------------------------------------------------------
(***************************************************************************)
(* Properties of Canvas (SpecCanvas).                                      *)
(***************************************************************************)
(* The Pixel made of bytes 3*(y*width+x) .. 3*(y*width+x)+2 (from 0). *)
PixelOfBytes(size, data, x, y) ==
    LET at == 3 * (y * size[1] + x)
    IN  <<data[at + 1], data[at + 2], data[at + 3]>>

(* C18: Canvas(size, data) raises CanvasFormatError exactly when the       *)
(* length of data differs from width*height*3; otherwise canvas[x, y] is   *)
(* the Pixel of the three bytes from 3*(y*width+x), for every x below the  *)
(* width and y below the height.                                           *)
C18_CanvasFormat ==
    /\ made.state = "CanvasFormatError" <=>
          (made.state \notin {"none", "input"}
             /\ Len(made.data) # made.size[1] * made.size[2] * 3)
    /\ made.state = "built" =>
          /\ \A x \in 0..(made.size[1] - 1), y \in 0..(made.size[2] - 1) :
                Canvas_at(made.grid, x, y) = PixelOfBytes(made.size, made.data, x, y)
          /\ made.got # <<>> =>
                made.got[3] = PixelOfBytes(made.size, made.data, made.got[1], made.got[2])

(* C18, witness: the last pixel of the second row of a canvas that is      *)
(* three wide and two high was read.                                       *)
C18_Witness ==
    /\ made.state = "built"
    /\ made.size = <<3, 2>>
    /\ made.got = <<2, 1, <<15, 16, 17>>>>


---------------------------------------------------------------------------
(***************************************************************************)
(* Properties of concurrent requests (SpecConc).                           *)
(***************************************************************************)
(* The coroutine has taken the decision of its wait before the send and    *)
(* the response to its request has not been seen by update yet.            *)
InWindow(t) == tasks[t].pc \in {"sleeping_before", "in_flight"}

(* C19: two coroutines of one Client are never both between their wait     *)
(* before the send and the update of the response on the same endpoint,    *)
(* so two requests are never both in flight on one remaining unit.         *)
C19_SameEndpointSerialized ==
    \A a, b \in Tasks :
        (a # b /\ tasks[a].req.endpoint = tasks[b].req.endpoint) =>
            /\ ~(InWindow(a) /\ InWindow(b))
            /\ ~( /\ tasks[a].pc = "in_flight" /\ tasks[b].pc = "in_flight"
                  /\ tasks[a].seen.remaining = 1 /\ tasks[b].seen.remaining = 1 )

(* The state of an endpoint changes only in a step of a coroutine whose    *)
(* request is to that endpoint.                                            *)
EndpointsIndependent ==
    [][\A e \in Endpoints :
          LimiterOf(ratelimits', e) # LimiterOf(ratelimits, e) =>
              \E t \in Tasks : tasks'[t] # tasks[t] /\ tasks'[t].req.endpoint = e]_vars


(* C20: in draw_and_fix every put_pixel is for the first cell, in the scan *)
(* order (by row, or by column when top_to_bottom), that is opaque and     *)
(* differs from the snapshot in use; the cells a scan has passed all agree *)
(* with its snapshot, so after a write the scan starts again from the      *)
(* first cell with a fresh snapshot.                                       *)
C20_FixWritesFirstMismatch ==
    call.strategy = "draw_and_fix" =>
        /\ \A i, j \in 1..Len(IterCoords(plan)) :
              i < j => ScanBefore(plan, IterCoords(plan)[i], IterCoords(plan)[j])
        /\ JustPut =>
              /\ cache.have
              /\ PutCell \in Mismatching(plan, cache.grid)
              /\ \A xy \in Mismatching(plan, cache.grid) :
                    xy = PutCell \/ ScanBefore(plan, PutCell, xy)
        /\ dpc = "loop" =>
              /\ cache.have
              /\ \A i \in 1..(scan - 1) :
                    IterCoords(plan)[i] \notin Mismatching(plan, cache.grid)

(* C20, witness: scanning by column, draw_and_fix wrote the cell below the *)
(* first one of a square grid; the first cell agrees with the snapshot in  *)
(* use although another agent has overwritten it since.                    *)
C20_Witness ==
    /\ call.strategy = "draw_and_fix"
    /\ plan.top_to_bottom
    /\ GridWidth(plan.grid) = 2 /\ GridHeight(plan.grid) = 2
    /\ dpc = "update_canvas_after"
    /\ PutCell = <<plan.x0, plan.y0 + 1>>
    /\ <<plan.x0, plan.y0>> \in Mismatching(plan, canvas)
    /\ <<plan.x0, plan.y0>> \notin Mismatching(plan, cache.grid)


(***************************************************************************)
(* The waits between two requests sent to one endpoint (Spec).             *)
(***************************************************************************)
(* C21: between two consecutive requests sent to the same endpoint through *)
(* Client.request the coroutine sleeps the quota window (`reset` seconds)  *)
(* at most once: when the wait after a write has slept it, the wait before *)
(* the next request to that endpoint does not sleep it again.              *)
C21_WindowSleptOnce ==
    \A e \in Endpoints : windows[e] <= 1

=============================================================================
